---- MODULE Spec2Model ----
(***************************************************************************)
(* Coverage planner (tools/coverage_calculator.py: compute_coverage) and   *)
(* geodetic projector (agents/ros_config_agent.py: generate_ros_waypoints, *)
(* generate_ros_config, run_ros_config_agent) of Icarus-Copilot.           *)
(*                                                                         *)
(* Numbers.  The Python code computes in IEEE doubles.  Here every float   *)
(* is an exact rational <<n, d>> with d > 0 and gcd(n, d) = 1, so the      *)
(* arithmetic is the real arithmetic the doubles approximate; round(x, k)  *)
(* is modelled by what it does (nearest multiple of 10^-k, ties to even).  *)
(* math.tan is tabulated to six decimals for the angles the model draws.   *)
(***************************************************************************)
EXTENDS Integers, Sequences, FiniteSets, TLC

VARIABLES
    pc,                   \* "start" | "planned" | "failed" | "projected" |
                          \* "configured" | "packaged"
    mission_spec,         \* the mission_spec dict handed to both functions
    cruise_speed_mps,     \* argument of compute_coverage
    max_flight_time_min,  \* argument of compute_coverage
    coverage_plan,        \* what compute_coverage returned (or the exception)
    cc_locals,            \* compute_coverage's locals when it returned
    origin_lat,           \* argument of generate_ros_waypoints
    origin_lon,           \* argument of generate_ros_waypoints
    waypoints,            \* what generate_ros_waypoints returned (or the exception)
    ros_package,          \* what generate_ros_config / run_ros_config_agent
                          \* returned (or the exception)
    other_spec,           \* the mission_spec of a second compute_coverage call
    other_plan,           \* what that second call returned (or the exception)
    entry,                \* the module whose uav_pipeline runs: "main" |
                          \* "pipeline"
    db,                   \* the rows of table missions; the id is the index
    env,                  \* os.environ['CURRENT_MISSION_ID'], 0 when not set
    runs,                 \* the state of each run of uav_pipeline
    fs                    \* the directories and files under missions/

pipeline_vars == <<entry, db, env, runs, fs>>

vars == <<pc, mission_spec, cruise_speed_mps, max_flight_time_min,
          coverage_plan, cc_locals, origin_lat, origin_lon, waypoints,
          ros_package, other_spec, other_plan, pipeline_vars>>

-----------------------------------------------------------------------------
(* Exact rationals                                                         *)

Abs(x) == IF x < 0 THEN -x ELSE x

RECURSIVE GCD(_, _)
GCD(a, b) == IF b = 0 THEN a ELSE GCD(b, a % b)

Q(n, d) ==
    LET g == GCD(Abs(n), Abs(d))
        s == IF d < 0 THEN -1 ELSE 1
    IN  <<(s * n) \div g, (s * d) \div g>>

QInt(k) == <<k, 1>>

QNeg(a) == <<-a[1], a[2]>>

QAbs(a) == <<Abs(a[1]), a[2]>>

QAdd(a, b) ==
    LET g == GCD(a[2], b[2])
    IN  Q(a[1] * (b[2] \div g) + b[1] * (a[2] \div g), (a[2] \div g) * b[2])

QSub(a, b) == QAdd(a, QNeg(b))

QMul(a, b) ==
    LET g1 == GCD(Abs(a[1]), b[2])
        g2 == GCD(Abs(b[1]), a[2])
    IN  Q((a[1] \div g1) * (b[1] \div g2), (a[2] \div g2) * (b[2] \div g1))

QInv(a) == IF a[1] < 0 THEN <<-a[2], -a[1]>> ELSE <<a[2], a[1]>>

QDiv(a, b) == QMul(a, QInv(b))

QLe(a, b) ==
    LET g == GCD(a[2], b[2])
    IN  a[1] * (b[2] \div g) <= b[1] * (a[2] \div g)

QLt(a, b) ==
    LET g == GCD(a[2], b[2])
    IN  a[1] * (b[2] \div g) < b[1] * (a[2] \div g)

QIsZero(a) == a[1] = 0

QPos(a) == a[1] > 0

QMin(a, b) == IF QLe(a, b) THEN a ELSE b

\* math.ceil
Ceil(a) == -((-a[1]) \div a[2])

Floor(a) == a[1] \div a[2]

\* round(x, ndigits) with scale = 10^ndigits: nearest, ties to even
Round(a, scale) ==
    LET ip   == a[1] \div a[2]
        frac == a[1] - ip * a[2]
        fk   == (frac * scale) \div a[2]
        rem  == frac * scale - fk * a[2]
        k    == ip * scale + fk
    IN  IF 2 * rem < a[2] THEN Q(k, scale)
        ELSE IF 2 * rem > a[2] THEN Q(k + 1, scale)
        ELSE IF k % 2 = 0 THEN Q(k, scale) ELSE Q(k + 1, scale)

Max(x, y) == IF x >= y THEN x ELSE y

-----------------------------------------------------------------------------
(* Input domains                                                           *)

MaxDimSteps == 3

\* rectangle sides in metres: multiples of 100 m, a 500 m side, a negative
\* side, a side below half a millimetre (0.0004 m) and a side that rounds up
\* to the millimetre (60.0606 m)
Dims == {QInt(100 * k) : k \in 0..MaxDimSteps}
            \cup {QInt(500), QInt(-30), Q(4, 10000), Q(600606, 10000)}

\* values given in the mission_spec; a mission_spec without the key gets
\* the default of the code (altitude 50, field of view 78, sidelap 65)
Altitudes == {QInt(0), QInt(70)}

FovDegs == {0, 90, 200}

Sidelaps == {QInt(0), QInt(50), QInt(100)}

Frontlaps == {QInt(75)}

Speeds == {QInt(0), QInt(1), QInt(8)}

MaxTimes == {QInt(1), QInt(20)}

OriginLats == {QInt(0), QInt(9), QInt(-18)}

OriginLons == {QInt(7)}

\* a Python dict is a function from its keys; an optional key is <<>> or <<v>>
EmptyDict == [k \in {} |-> 0]

Entry(k, opt) == IF opt = <<>> THEN EmptyDict ELSE (k :> opt[1])

Opt(S) == {<<>>} \cup {<<v>> : v \in S}

AreaDicts == {("length_m" :> l) @@ ("width_m" :> w) : l \in Dims, w \in Dims}

OverlapDicts ==
    {("frontlap_percent" :> f) @@ ("sidelap_percent" :> s) :
        f \in Frontlaps, s \in Sidelaps}

MissionSpecs ==
    {Entry("area", a) @@ Entry("altitude_m", h) @@ Entry("camera_fov_deg", f)
        @@ Entry("overlap", o) :
        a \in Opt(AreaDicts), h \in Opt(Altitudes), f \in Opt(FovDegs),
        o \in Opt(OverlapDicts)}

\* a second mission_spec for the same mission: another frontlap_percent,
\* and the fields the planner does not read
OtherFrontlaps == {QInt(60), QInt(90)}

ExtraFields ==
    ("constraints" :> [no_fly_buffer_m |-> QInt(150),
                       battery_reserve_percent |-> QInt(25)])
        @@ ("regulatory" :> [authority |-> "DGCA"])
        @@ ("notes" :> "survey before noon")

WithFrontlap(ms, f) ==
    ("overlap" :> (("frontlap_percent" :> f)
                       @@ (IF "overlap" \in DOMAIN ms
                           THEN ms["overlap"] ELSE EmptyDict)))
        @@ ms

Variants(ms) ==
    {ms @@ ExtraFields}
        \cup {WithFrontlap(ms, f) : f \in OtherFrontlaps}
        \cup {WithFrontlap(ms, f) @@ ExtraFields : f \in OtherFrontlaps}

\* the missions of the two-call runs: altitude and field of view left to
\* their defaults
PairSpecs ==
    {ms \in MissionSpecs :
        "altitude_m" \notin DOMAIN ms /\ "camera_fov_deg" \notin DOMAIN ms}

-----------------------------------------------------------------------------
(* tools/coverage_calculator.py                                            *)

\* dict.get(key, default)
Get(d, k, default) == IF k \in DOMAIN d THEN d[k] ELSE default

\* math.tan(math.radians(fov_deg) / 2), to six decimals.  For 90 degrees the
\* double is 0.9999999999999999, the one just below 1: it is kept below 1
\* here, since ceil(span / spacing) tells the two apart.
TanHalf(fov_deg) ==
    CASE fov_deg = 0   -> QInt(0)
      [] fov_deg = 78  -> Q(809784, 1000000)
      [] fov_deg = 90  -> Q(999999, 1000000)
      [] fov_deg = 200 -> Q(-5671282, 1000000)

\* variant: the half swath, h * tan(FOV/2)
SwathWidth_Half(altitude_m, fov_deg) ==
    QMul(altitude_m, TanHalf(fov_deg))

\* swath = 2 * h * tan(FOV/2)
SwathWidth(altitude_m, fov_deg) ==
    QMul(QMul(QInt(2), altitude_m), TanHalf(fov_deg))

\* leg spacing from sidelap
LegSpacing(swath_width_m, sidelap_percent) ==
    LET sidelap_fraction == QDiv(sidelap_percent, QInt(100))
    IN  QMul(swath_width_m, QSub(QInt(1), sidelap_fraction))

\* variant: math.floor in place of math.ceil
NumLegsAcross_Floor(span_m, leg_spacing_m) ==
    IF QPos(leg_spacing_m) THEN Floor(QDiv(span_m, leg_spacing_m)) ELSE 1

\* variant: no leg where the spacing is not positive
NumLegsAcross_NoLegs(span_m, leg_spacing_m) ==
    IF QPos(leg_spacing_m) THEN Ceil(QDiv(span_m, leg_spacing_m)) ELSE 0

\* math.ceil(span / leg_spacing_m) if leg_spacing_m > 0 else 1
NumLegsAcross(span_m, leg_spacing_m) ==
    IF QPos(leg_spacing_m) THEN Ceil(QDiv(span_m, leg_spacing_m)) ELSE 1

\* variant: < in place of <=
ChooseSweep_Strict(path_length_along_length, path_length_along_width) ==
    IF QLt(path_length_along_length, path_length_along_width)
    THEN "along_length" ELSE "along_width"

\* if path_length_along_length <= path_length_along_width
ChooseSweep(path_length_along_length, path_length_along_width) ==
    IF QLe(path_length_along_length, path_length_along_width)
    THEN "along_length" ELSE "along_width"

\* variant: the span divided by the number of legs
NormalizedSpacing_ByLegs(field_span_m, num_legs) ==
    IF num_legs > 1 THEN QDiv(field_span_m, QInt(num_legs)) ELSE QInt(0)

\* variant: a single leg keeps the whole span as its spacing
NormalizedSpacing_SingleSpan(field_span_m, num_legs) ==
    IF num_legs > 1 THEN QDiv(field_span_m, QInt(num_legs - 1))
    ELSE field_span_m

\* recompute spacing for the selected direction
NormalizedSpacing(field_span_m, num_legs) ==
    IF num_legs > 1 THEN QDiv(field_span_m, QInt(num_legs - 1)) ELSE QInt(0)

\* variant: counts the gaps between legs, not the legs
TotalPathLength_Gaps(num_legs, leg_length_m) ==
    QMul(QInt(num_legs - 1), leg_length_m)

\* total_path_length_m = num_legs * leg_length_m
TotalPathLength(num_legs, leg_length_m) == QMul(QInt(num_legs), leg_length_m)

\* (total_path_length_m / cruise_speed_mps) / 60.0
FlightTimeMin(total_path_length_m, speed) ==
    QDiv(QDiv(total_path_length_m, speed), QInt(60))

\* variant: the time is rounded to 2 decimals before it is divided
NumBatterySegments_Rounded(total_flight_time_min, maxt) ==
    Max(1, Ceil(QDiv(Round(total_flight_time_min, 100), maxt)))

\* max(1, math.ceil(total_flight_time_min / max_flight_time_min))
NumBatterySegments(total_flight_time_min, maxt) ==
    Max(1, Ceil(QDiv(total_flight_time_min, maxt)))

\* variant: every leg flown in the same direction
Leg_OneWay(i, sweep_direction, leg_spacing_m, leg_length_m) ==
    LET offset == QMul(QInt(i), leg_spacing_m)
        zero   == QInt(0)
        ends   ==
            IF sweep_direction = "along_length"
            THEN <<zero, offset, leg_length_m, offset>>
            ELSE <<offset, zero, offset, leg_length_m>>
    IN  [leg_id    |-> i + 1,
         x_start_m |-> Round(ends[1], 1000),
         y_start_m |-> Round(ends[2], 1000),
         x_end_m   |-> Round(ends[3], 1000),
         y_end_m   |-> Round(ends[4], 1000)]

\* one iteration of the loop over range(num_legs), i zero-based
Leg(i, sweep_direction, leg_spacing_m, leg_length_m) ==
    LET offset == QMul(QInt(i), leg_spacing_m)
        zero   == QInt(0)
        ends   ==
            IF sweep_direction = "along_length"
            THEN IF i % 2 = 0
                 THEN <<zero, offset, leg_length_m, offset>>
                 ELSE <<leg_length_m, offset, zero, offset>>
            ELSE IF i % 2 = 0
                 THEN <<offset, zero, offset, leg_length_m>>
                 ELSE <<offset, leg_length_m, offset, zero>>
    IN  [leg_id    |-> i + 1,
         x_start_m |-> Round(ends[1], 1000),
         y_start_m |-> Round(ends[2], 1000),
         x_end_m   |-> Round(ends[3], 1000),
         y_end_m   |-> Round(ends[4], 1000)]

\* legs = [] ; for i in range(num_legs): legs.append(...)
Legs(num_legs, sweep_direction, leg_spacing_m, leg_length_m) ==
    IF num_legs <= 0 THEN <<>>
    ELSE [j \in 1..num_legs |->
            Leg(j - 1, sweep_direction, leg_spacing_m, leg_length_m)]

\* extract inputs
LengthOf(ms) == Get(Get(ms, "area", EmptyDict), "length_m", QInt(0))

WidthOf(ms) == Get(Get(ms, "area", EmptyDict), "width_m", QInt(0))

AltitudeOf(ms) == Get(ms, "altitude_m", QInt(50))

FovOf(ms) == Get(ms, "camera_fov_deg", 78)

FrontlapOf(ms) ==
    Get(Get(ms, "overlap", EmptyDict), "frontlap_percent", QInt(75))

\* variant: the across-track overlap read from the frontlap entry
SidelapOf_FromFrontlap(ms) ==
    Get(Get(ms, "overlap", EmptyDict), "frontlap_percent", QInt(65))

SidelapOf(ms) == Get(Get(ms, "overlap", EmptyDict), "sidelap_percent", QInt(65))

\* the whole function: its locals when it returns, and what it returns
compute_coverage(ms, speed, maxt) ==
    LET length_m   == LengthOf(ms)
        width_m    == WidthOf(ms)
        altitude_m == AltitudeOf(ms)
        fov_deg    == FovOf(ms)
        frontlap_percent == FrontlapOf(ms)
        sidelap_percent == SidelapOf(ms)
        swath_width_m   == SwathWidth(altitude_m, fov_deg)
        spacing0        == LegSpacing(swath_width_m, sidelap_percent)
        num_legs_along_length == NumLegsAcross(width_m, spacing0)
        path_length_along_length ==
            TotalPathLength(num_legs_along_length, length_m)
        num_legs_along_width == NumLegsAcross(length_m, spacing0)
        path_length_along_width ==
            TotalPathLength(num_legs_along_width, width_m)
        sweep_direction ==
            ChooseSweep(path_length_along_length, path_length_along_width)
        along        == sweep_direction = "along_length"
        num_legs     == IF along THEN num_legs_along_length
                        ELSE num_legs_along_width
        leg_length_m == IF along THEN length_m ELSE width_m
        field_span_m == IF along THEN width_m ELSE length_m
        leg_spacing_m == NormalizedSpacing(field_span_m, num_legs)
        total_path_length_m == TotalPathLength(num_legs, leg_length_m)
    IN  IF QIsZero(speed) \/ QIsZero(maxt)
        THEN [ret    |-> [status |-> "raised", error |-> "ZeroDivisionError"],
              locals |-> [status |-> "raised"]]
        ELSE
        LET total_flight_time_min ==
                FlightTimeMin(total_path_length_m, speed)
            num_battery_segments ==
                NumBatterySegments(total_flight_time_min, maxt)
        IN  [ret |->
               [status |-> "returned",
                coverage_summary |->
                  [sweep_direction       |-> sweep_direction,
                   swath_width_m         |-> Round(swath_width_m, 1000),
                   leg_spacing_m         |-> Round(leg_spacing_m, 1000),
                   num_legs              |-> num_legs,
                   leg_length_m          |-> Round(leg_length_m, 1000),
                   total_path_length_m   |-> Round(total_path_length_m, 1000),
                   cruise_speed_mps      |-> speed,
                   total_flight_time_min |-> Round(total_flight_time_min, 100),
                   num_battery_segments  |-> num_battery_segments],
                legs |-> Legs(num_legs, sweep_direction, leg_spacing_m,
                              leg_length_m)],
             locals |->
               [status          |-> "returned",
                length_m        |-> length_m,
                width_m         |-> width_m,
                altitude_m      |-> altitude_m,
                fov_deg         |-> fov_deg,
                frontlap_percent |-> frontlap_percent,
                sidelap_percent |-> sidelap_percent,
                swath_width_m   |-> swath_width_m,
                sidelap_spacing_m |-> spacing0,
                num_legs_along_length    |-> num_legs_along_length,
                path_length_along_length |-> path_length_along_length,
                num_legs_along_width     |-> num_legs_along_width,
                path_length_along_width  |-> path_length_along_width,
                sweep_direction |-> sweep_direction,
                num_legs        |-> num_legs,
                leg_length_m    |-> leg_length_m,
                field_span_m    |-> field_span_m,
                leg_spacing_m   |-> leg_spacing_m,
                total_path_length_m   |-> total_path_length_m,
                total_flight_time_min |-> total_flight_time_min,
                num_battery_segments  |-> num_battery_segments]]

-----------------------------------------------------------------------------
(* agents/ros_config_agent.py                                              *)

\* variant: x taken for the latitude and y for the longitude
AppendLeg_Swapped(wps, leg, altitude, lat, lon, meters_to_lat, meters_to_lon) ==
    LET start == [id        |-> Len(wps) + 1,
                  type      |-> "waypoint",
                  latitude  |-> QAdd(lat, QMul(leg.x_start_m, meters_to_lat)),
                  longitude |-> QAdd(lon, QMul(leg.y_start_m, meters_to_lon)),
                  altitude  |-> altitude,
                  leg_id    |-> leg.leg_id,
                  position  |-> "start"]
        wps1  == Append(wps, start)
        end   == [id        |-> Len(wps1) + 1,
                  type      |-> "waypoint",
                  latitude  |-> QAdd(lat, QMul(leg.x_end_m, meters_to_lat)),
                  longitude |-> QAdd(lon, QMul(leg.y_end_m, meters_to_lon)),
                  altitude  |-> altitude,
                  leg_id    |-> leg.leg_id,
                  position  |-> "end"]
    IN  Append(wps1, end)

\* the two appends of one loop iteration; len(waypoints) + 1 numbers them
AppendLeg(wps, leg, altitude, lat, lon, meters_to_lat, meters_to_lon) ==
    LET start == [id        |-> Len(wps) + 1,
                  type      |-> "waypoint",
                  latitude  |-> QAdd(lat, QMul(leg.y_start_m, meters_to_lat)),
                  longitude |-> QAdd(lon, QMul(leg.x_start_m, meters_to_lon)),
                  altitude  |-> altitude,
                  leg_id    |-> leg.leg_id,
                  position  |-> "start"]
        wps1  == Append(wps, start)
        end   == [id        |-> Len(wps1) + 1,
                  type      |-> "waypoint",
                  latitude  |-> QAdd(lat, QMul(leg.y_end_m, meters_to_lat)),
                  longitude |-> QAdd(lon, QMul(leg.x_end_m, meters_to_lon)),
                  altitude  |-> altitude,
                  leg_id    |-> leg.leg_id,
                  position  |-> "end"]
    IN  Append(wps1, end)

RECURSIVE ProjectLegs(_, _, _, _, _, _, _)
ProjectLegs(wps, legs, altitude, lat, lon, meters_to_lat, meters_to_lon) ==
    IF legs = <<>> THEN wps
    ELSE ProjectLegs(
            AppendLeg(wps, Head(legs), altitude, lat, lon,
                      meters_to_lat, meters_to_lon),
            Tail(legs), altitude, lat, lon, meters_to_lat, meters_to_lon)

generate_ros_waypoints(plan, ms, lat, lon) ==
    LET legs     == Get(plan, "legs", <<>>)
        altitude == AltitudeOf(ms)
        meters_to_lat == QDiv(QInt(1), QInt(111320))
    IN  \* 1.0 / (111320.0 * abs(origin_lat / 90.0)) divides by zero first
        IF QIsZero(lat)
        THEN [status |-> "raised", error |-> "ZeroDivisionError"]
        ELSE
        LET meters_to_lon ==
                QDiv(QInt(1),
                     QMul(QInt(111320), QAbs(QDiv(lat, QInt(90)))))
        IN  [status    |-> "returned",
             waypoints |-> ProjectLegs(<<>>, legs, altitude, lat, lon,
                                       meters_to_lat, meters_to_lon)]

\* the configuration dictionary
generate_ros_config(ms, plan) ==
    LET summary     == Get(plan, "coverage_summary", EmptyDict)
        constraints == Get(ms, "constraints", EmptyDict)
    IN  [mission_parameters |->
            [altitude_m       |-> AltitudeOf(ms),
             cruise_speed_mps |-> Get(summary, "cruise_speed_mps", QInt(8)),
             camera_fov_deg   |-> FovOf(ms),
             overlap          |-> Get(ms, "overlap", EmptyDict)],
         flight_parameters |->
            [num_waypoints    |-> Len(Get(plan, "legs", <<>>)) * 2,
             total_distance_m |-> Get(summary, "total_path_length_m", QInt(0)),
             estimated_flight_time_min |->
                 Get(summary, "total_flight_time_min", QInt(0)),
             num_battery_segments |-> Get(summary, "num_battery_segments", 1)],
         safety_parameters |->
            [no_fly_buffer_m  |-> Get(constraints, "no_fly_buffer_m", QInt(100)),
             battery_reserve_percent |->
                 Get(constraints, "battery_reserve_percent", QInt(20)),
             max_wind_speed_mps |-> QInt(10),
             return_to_home_altitude_m |-> QAdd(AltitudeOf(ms), QInt(20))],
         regulatory |-> Get(ms, "regulatory", EmptyDict)]

\* waypoints, then the configuration, then the package around the two; an
\* exception of generate_ros_waypoints leaves the function at once
run_ros_config_agent(ms, plan, lat, lon) ==
    LET wps == generate_ros_waypoints(plan, ms, lat, lon)
    IN  IF wps.status = "raised" THEN wps
        ELSE [status    |-> "returned",
              waypoints |-> wps.waypoints,
              config    |-> generate_ros_config(ms, plan),
              metadata  |->
                 [total_waypoints |-> Len(wps.waypoints),
                  origin |-> [latitude |-> lat, longitude |-> lon],
                  coordinate_system |-> "WGS84"]]

-----------------------------------------------------------------------------
(* The calls                                                               *)

NoArg == <<0, 0>>

NotCalled == [status |-> "not_called"]

\* the runs of uav_pipeline that share the process, the database and missions/
Runs == {1, 2}

NewRun ==
    [pc |-> "start", saved_id |-> 0, plan |-> NotCalled, ros |-> NotCalled,
     brief |-> NotCalled, result |-> NotCalled]

EmptyFs == [dirs |-> {}, files |-> {}]

\* no pipeline has been started
PipelineIdle ==
    /\ entry = "main"
    /\ db = <<>>
    /\ env = 0
    /\ runs = [r \in Runs |-> NewRun]
    /\ fs = EmptyFs

Init ==
    /\ pc = "start"
    /\ mission_spec \in MissionSpecs
    /\ cruise_speed_mps = NoArg
    /\ max_flight_time_min = NoArg
    /\ coverage_plan = NotCalled
    /\ cc_locals = NotCalled
    /\ origin_lat = NoArg
    /\ origin_lon = NoArg
    /\ waypoints = NotCalled
    /\ ros_package = NotCalled
    /\ other_spec = mission_spec
    /\ other_plan = NotCalled
    /\ PipelineIdle

\* run_coverage_agent / compute_coverage(mission_spec, speed, maxt)
ComputeCoverage ==
    /\ pc = "start"
    /\ \E speed \in Speeds, maxt \in MaxTimes :
          LET r == compute_coverage(mission_spec, speed, maxt)
          IN  /\ cruise_speed_mps' = speed
              /\ max_flight_time_min' = maxt
              /\ coverage_plan' = r.ret
              /\ cc_locals' = r.locals
              /\ pc' = IF r.ret.status = "returned" THEN "planned" ELSE "failed"
    /\ UNCHANGED <<mission_spec, origin_lat, origin_lon, waypoints,
                   ros_package, other_spec, other_plan,
                   pipeline_vars>>

\* variant: the legs are taken out of the plan as they are projected
GenerateRosWaypoints_Consuming ==
    /\ pc = "planned"
    /\ \E lat \in OriginLats, lon \in OriginLons :
          /\ origin_lat' = lat
          /\ origin_lon' = lon
          /\ waypoints' = generate_ros_waypoints(coverage_plan, mission_spec,
                                                 lat, lon)
    /\ coverage_plan' = [coverage_plan EXCEPT !.legs = <<>>]
    /\ pc' = "projected"
    /\ UNCHANGED <<mission_spec, cruise_speed_mps, max_flight_time_min,
                   cc_locals, ros_package, other_spec, other_plan,
                   pipeline_vars>>

\* generate_ros_waypoints(coverage_plan, mission_spec, origin_lat, origin_lon)
GenerateRosWaypoints ==
    /\ pc = "planned"
    /\ \E lat \in OriginLats, lon \in OriginLons :
          /\ origin_lat' = lat
          /\ origin_lon' = lon
          /\ waypoints' = generate_ros_waypoints(coverage_plan, mission_spec,
                                                 lat, lon)
    /\ pc' = "projected"
    /\ UNCHANGED <<mission_spec, cruise_speed_mps, max_flight_time_min,
                   coverage_plan, cc_locals, ros_package, other_spec,
                   other_plan,
                   pipeline_vars>>

\* generate_ros_config(mission_spec, coverage_plan)
GenerateRosConfig ==
    /\ pc = "planned"
    /\ ros_package' = [status |-> "returned",
                       config |-> generate_ros_config(mission_spec,
                                                      coverage_plan)]
    /\ pc' = "configured"
    /\ UNCHANGED <<mission_spec, cruise_speed_mps, max_flight_time_min,
                   coverage_plan, cc_locals, origin_lat, origin_lon,
                   waypoints, other_spec, other_plan,
                   pipeline_vars>>

\* run_ros_config_agent(mission_spec, coverage_plan, origin_lat, origin_lon)
RunRosConfigAgent ==
    /\ pc = "planned"
    /\ \E lat \in OriginLats, lon \in OriginLons :
          /\ origin_lat' = lat
          /\ origin_lon' = lon
          /\ ros_package' = run_ros_config_agent(mission_spec, coverage_plan,
                                                 lat, lon)
    /\ pc' = "packaged"
    /\ UNCHANGED <<mission_spec, cruise_speed_mps, max_flight_time_min,
                   coverage_plan, cc_locals, waypoints, other_spec,
                   other_plan,
                   pipeline_vars>>

Next ==
    \/ ComputeCoverage
    \/ GenerateRosWaypoints
    \/ GenerateRosConfig
    \/ RunRosConfigAgent

Spec == Init /\ [][Next]_vars

\* Two calls of compute_coverage with the same speed and segment time, on a
\* mission_spec and on a variant of it.
InitPair ==
    /\ pc = "start"
    /\ mission_spec \in PairSpecs
    /\ other_spec \in Variants(mission_spec)
    /\ cruise_speed_mps = NoArg
    /\ max_flight_time_min = NoArg
    /\ coverage_plan = NotCalled
    /\ cc_locals = NotCalled
    /\ origin_lat = NoArg
    /\ origin_lon = NoArg
    /\ waypoints = NotCalled
    /\ ros_package = NotCalled
    /\ other_plan = NotCalled
    /\ PipelineIdle

\* compute_coverage(other_spec, cruise_speed_mps, max_flight_time_min)
ComputeCoverageOther ==
    /\ pc \in {"planned", "failed"}
    /\ other_plan.status = "not_called"
    /\ other_plan' = compute_coverage(other_spec, cruise_speed_mps,
                                      max_flight_time_min).ret
    /\ UNCHANGED <<pc, mission_spec, cruise_speed_mps, max_flight_time_min,
                   coverage_plan, cc_locals, origin_lat, origin_lon,
                   waypoints, ros_package, other_spec,
                   pipeline_vars>>

NextPair == ComputeCoverage \/ ComputeCoverageOther

SpecPair == InitPair /\ [][NextPair]_vars

-----------------------------------------------------------------------------
(* main.py, pipeline.py, chat.py, mission_db/mission_repo.py               *)
(*                                                                         *)
(* uav_pipeline is mission_planner, db_saver_agent, coverage_agent, then   *)
(* ros_config_agent and documentation_agent in parallel.  The tools are    *)
(* synchronous functions, so a tool call is one step; the steps of the     *)
(* runs interleave.  The agents are language models: whether db_saver      *)
(* calls its tool, and what text reaches a tool as db_save_result, is not  *)
(* fixed by the code.  A file is recorded by its directory, its name and   *)
(* the run whose mission_spec and coverage_plan it was made from.          *)

\* rows in table missions before any run starts
MaxExisting == 1

\* the mission_spec the mission_planner hands to run r
MissionOf(r) ==
    ("area" :> (("length_m" :> QInt(100 * (r + 1)))
                    @@ ("width_m" :> QInt(100 * r))))
        @@ ("altitude_m" :> QInt(70))
        @@ ("camera_fov_deg" :> 90)
        @@ ("overlap" :> (("frontlap_percent" :> QInt(75))
                              @@ ("sidelap_percent" :> QInt(50))))

\* list_missions(): ORDER BY id DESC, so missions[0] is the row with the
\* largest id; 0 stands for an empty list
LatestId == Len(db)

\* what json.loads(db_save_result) gives a tool of run r: nothing (None, or
\* text that is not JSON), or a dict whose mission_id is the id the run
\* saved, 0 (also: no such key) or a negative number
DbSaveResults(r) ==
    {[parsed |-> FALSE, mission_id |-> 0]}
        \cup {[parsed |-> TRUE, mission_id |-> k] :
                 k \in {runs[r].saved_id, 0, -1}}

\* mission_id = db_result.get("mission_id", 0), then the fallback
\* int(os.environ.get('CURRENT_MISSION_ID', 0)) when it is 0
ResolveMissionId(arg, current_mission_id) ==
    LET mission_id == IF arg.parsed THEN arg.mission_id ELSE 0
    IN  IF mission_id = 0 THEN current_mission_id ELSE mission_id

\* os.makedirs(output_dir, exist_ok=True) and the files opened for writing
WriteFiles(files, mission_id, names, r) ==
    [dirs  |-> files.dirs \cup {mission_id},
     files |-> files.files
                  \cup {[dir |-> mission_id, name |-> n, run |-> r] :
                           n \in names}]

InitPipeline ==
    /\ pc = "start"
    /\ mission_spec = EmptyDict
    /\ cruise_speed_mps = NoArg
    /\ max_flight_time_min = NoArg
    /\ coverage_plan = NotCalled
    /\ cc_locals = NotCalled
    /\ origin_lat = NoArg
    /\ origin_lon = NoArg
    /\ waypoints = NotCalled
    /\ ros_package = NotCalled
    /\ other_spec = EmptyDict
    /\ other_plan = NotCalled
    /\ entry \in {"main", "pipeline"}
    /\ db \in {[i \in 1..n |-> [owner |-> 0]] : n \in 0..MaxExisting}
    /\ env = 0
    /\ runs = [r \in Runs |-> NewRun]
    /\ fs = EmptyFs

planner_vars ==
    <<pc, mission_spec, cruise_speed_mps, max_flight_time_min, coverage_plan,
      cc_locals, origin_lat, origin_lon, waypoints, ros_package, other_spec,
      other_plan>>

\* save_mission_to_db: create_mission_with_spec inserts the row and returns
\* cur.lastrowid; pipeline.py also sets CURRENT_MISSION_ID
SaveMissionToDb(r) ==
    /\ runs[r].pc = "start"
    /\ LET mission_id == Len(db) + 1
       IN  /\ db' = Append(db, [owner |-> r])
           /\ env' = IF entry = "pipeline" THEN mission_id ELSE env
           /\ runs' = [runs EXCEPT ![r].pc = "saved",
                                   ![r].saved_id = mission_id]
    /\ UNCHANGED <<entry, fs, planner_vars>>

\* db_saver_agent answers without calling save_mission_to_db
DbSaverSkipsTool(r) ==
    /\ runs[r].pc = "start"
    /\ runs' = [runs EXCEPT ![r].pc = "saved"]
    /\ UNCHANGED <<entry, db, env, fs, planner_vars>>

\* an exception ends runner.run_debug
RunRaises(r) ==
    /\ runs[r].pc \in {"start", "saved", "covered"}
    /\ runs' = [runs EXCEPT ![r].pc = "failed"]
    /\ UNCHANGED <<entry, db, env, fs, planner_vars>>

\* calculate_coverage: run_coverage_agent(mission_spec)
CalculateCoverage(r) ==
    /\ runs[r].pc = "saved"
    /\ runs' = [runs EXCEPT
                   ![r].pc = "covered",
                   ![r].plan = compute_coverage(MissionOf(r), QInt(8),
                                                QInt(20)).ret]
    /\ UNCHANGED <<entry, db, env, fs, planner_vars>>

\* generate_ros_package of main.py (list_missions) and of pipeline.py
\* (db_save_result, then CURRENT_MISSION_ID)
GenerateRosPackage(r) ==
    /\ runs[r].pc = "covered"
    /\ runs[r].ros.status = "not_called"
    /\ \E arg \in DbSaveResults(r) :
          LET mission_id ==
                  IF entry = "main" THEN LatestId
                  ELSE ResolveMissionId(arg, env)
              written == mission_id > 0
          IN  /\ fs' = IF written
                       THEN WriteFiles(fs, mission_id,
                                       {"ros_waypoints.json",
                                        "ros_config.json"}, r)
                       ELSE fs
              /\ runs' = [runs EXCEPT ![r].ros =
                            [status     |-> IF written \/ entry = "main"
                                            THEN "returned" ELSE "error",
                             arg        |-> IF entry = "main"
                                            THEN [parsed |-> FALSE,
                                                  mission_id |-> 0]
                                            ELSE arg,
                             env        |-> env,
                             mission_id |-> mission_id,
                             total_waypoints |->
                                 2 * Len(runs[r].plan.legs)]]
    /\ UNCHANGED <<entry, db, env, planner_vars>>

\* generate_mission_brief of main.py (list_missions, then
\* create_mission_brief, which writes also for mission_id 0) and of
\* pipeline.py (error only when the resolved mission_id is 0)
GenerateMissionBrief(r) ==
    /\ runs[r].pc = "covered"
    /\ runs[r].brief.status = "not_called"
    /\ \E arg \in DbSaveResults(r) :
          LET mission_id ==
                  IF entry = "main" THEN LatestId
                  ELSE ResolveMissionId(arg, env)
              written == entry = "main" \/ mission_id # 0
          IN  /\ fs' = IF written
                       THEN WriteFiles(fs, mission_id,
                                       {"mission_brief.md"}, r)
                       ELSE fs
              /\ runs' = [runs EXCEPT ![r].brief =
                            [status     |-> IF written
                                            THEN "returned" ELSE "error",
                             arg        |-> IF entry = "main"
                                            THEN [parsed |-> FALSE,
                                                  mission_id |-> 0]
                                            ELSE arg,
                             env        |-> env,
                             mission_id |-> mission_id,
                             num_legs   |->
                                 runs[r].plan.coverage_summary.num_legs]]
    /\ UNCHANGED <<entry, db, env, planner_vars>>

\* the parallel agents are both done
ParallelOutputsDone(r) ==
    /\ runs[r].pc = "covered"
    /\ runs[r].ros.status # "not_called"
    /\ runs[r].brief.status # "not_called"

\* run_debug returns to main()
RunCompletes(r) ==
    /\ ParallelOutputsDone(r)
    /\ runs' = [runs EXCEPT ![r].pc = "done"]
    /\ UNCHANGED <<entry, db, env, fs, planner_vars>>

\* run_debug returns to chat.create_new_mission, which goes on to
\* list_missions()[0] without a suspension point; or run_debug raises into
\* the except branch
CreateNewMissionReturns(r) ==
    /\ entry = "main"
    /\ runs[r].result.status = "not_called"
    /\ \/ /\ ParallelOutputsDone(r)
          /\ runs' = [runs EXCEPT
                         ![r].pc = "done",
                         ![r].result =
                             IF db # <<>>
                             THEN [status |-> "success",
                                   mission_id |-> LatestId]
                             ELSE [status |-> "error", mission_id |-> 0]]
       \/ /\ runs[r].pc = "failed"
          /\ runs' = [runs EXCEPT ![r].result =
                         [status |-> "error", mission_id |-> 0]]
    /\ UNCHANGED <<entry, db, env, fs, planner_vars>>

NextPipeline ==
    \E r \in Runs :
        \/ SaveMissionToDb(r)
        \/ DbSaverSkipsTool(r)
        \/ RunRaises(r)
        \/ CalculateCoverage(r)
        \/ GenerateRosPackage(r)
        \/ GenerateMissionBrief(r)
        \/ RunCompletes(r)
        \/ CreateNewMissionReturns(r)

SpecPipeline == InitPipeline /\ [][NextPipeline]_vars

-----------------------------------------------------------------------------
(* Properties                                                              *)

Called == pc # "start"

Returned == coverage_plan.status = "returned"

Summary == coverage_plan.coverage_summary

InvalidParameter(result) ==
    result.status = "raised" /\ result.error = "InvalidParameterError"

\* the documented input ranges of the planner
ValidInput ==
    /\ QPos(LengthOf(mission_spec))
    /\ QPos(WidthOf(mission_spec))
    /\ QPos(AltitudeOf(mission_spec))
    /\ FovOf(mission_spec) > 0 /\ FovOf(mission_spec) < 180
    /\ QLe(QInt(0), SidelapOf(mission_spec))
    /\ QLt(SidelapOf(mission_spec), QInt(100))
    /\ Called /\ QPos(cruise_speed_mps) /\ QPos(max_flight_time_min)

\* the speed and the segment time do not themselves stop the call
UsableFlightParams == QPos(cruise_speed_mps) /\ QPos(max_flight_time_min)

\* C1: compute_coverage called with length_m <= 0 or width_m <= 0 (an absent
\* area included) fails with InvalidParameterError and never returns a plan
\* with num_legs = 0 and no legs.
C1_DegenerateRectangleRejected ==
    (Called /\ UsableFlightParams
        /\ (~QPos(LengthOf(mission_spec)) \/ ~QPos(WidthOf(mission_spec))))
        => /\ InvalidParameter(coverage_plan)
           /\ ~(Returned /\ Summary.num_legs = 0 /\ coverage_plan.legs = <<>>)

\* C2 as stated: for valid input the result has num_legs >= 1, a reported
\* total_path_length_m > 0 and exactly num_legs legs.
C2_ValidInputPositivePlan ==
    ValidInput =>
        /\ Returned
        /\ Summary.num_legs >= 1
        /\ QPos(Summary.total_path_length_m)
        /\ Len(coverage_plan.legs) = Summary.num_legs

\* C2 amended: for valid input the result has num_legs >= 1, exactly num_legs
\* legs and a total path length > 0 before rounding; the reported
\* total_path_length_m is >= 0 and is 0 only when the total before rounding is
\* at most half a millimetre.
C2_ValidInputPlanAmended ==
    ValidInput =>
        /\ Returned
        /\ Summary.num_legs >= 1
        /\ Len(coverage_plan.legs) = Summary.num_legs
        /\ QPos(cc_locals.total_path_length_m)
        /\ QLe(QInt(0), Summary.total_path_length_m)
        /\ (QIsZero(Summary.total_path_length_m)
               => QLe(cc_locals.total_path_length_m, Q(5, 10000)))

\* a valid rectangle so small that its reported path length rounds to 0
C2_Witness ==
    /\ ValidInput /\ Returned
    /\ Summary.num_legs = 1
    /\ QIsZero(Summary.total_path_length_m)

\* C3: compute_coverage fails with InvalidParameterError whenever
\* altitude_m <= 0 or camera_fov_deg is outside (0, 180); no coverage_summary
\* is returned for such input.
C3_AltitudeAndFovValidated ==
    (Called /\ UsableFlightParams
        /\ (~QPos(AltitudeOf(mission_spec))
               \/ FovOf(mission_spec) <= 0 \/ FovOf(mission_spec) >= 180))
        => InvalidParameter(coverage_plan) /\ ~Returned

\* C4: generate_ros_waypoints called with origin_lat = 0 fails with
\* InvalidParameterError, whatever the plan (an empty legs list included),
\* and with no other error.
C4_ZeroLatitudeRejected ==
    (pc = "projected" /\ QIsZero(origin_lat)) => InvalidParameter(waypoints)

\* the candidate path length of one orientation, from the inputs
CandidatePath(span_m, leg_length_m) ==
    LET spacing == cc_locals.sidelap_spacing_m
        n == IF QPos(spacing) THEN Ceil(QDiv(span_m, spacing)) ELSE 1
    IN  QMul(QInt(n), leg_length_m)

\* C5: the orientation chosen is the one with the smaller candidate path
\* length ceil(span_across / leg_spacing) * leg_length, along_length on a tie,
\* and the total path length before rounding is the smaller candidate.
C5_MinimalPathOrientation ==
    Returned =>
        LET a == CandidatePath(WidthOf(mission_spec), LengthOf(mission_spec))
            b == CandidatePath(LengthOf(mission_spec), WidthOf(mission_spec))
        IN  /\ QLt(a, b) => Summary.sweep_direction = "along_length"
            /\ QLt(b, a) => Summary.sweep_direction = "along_width"
            /\ a = b => Summary.sweep_direction = "along_length"
            /\ cc_locals.total_path_length_m = QMin(a, b)

\* a tie between two multi-leg candidates, going to along_length
C5_Witness ==
    /\ ValidInput /\ Returned
    /\ cc_locals.path_length_along_length = cc_locals.path_length_along_width
    /\ cc_locals.num_legs_along_length > 1
    /\ Summary.sweep_direction = "along_length"

\* C6 as stated: the reported total_path_length_m equals the reported num_legs
\* times the reported leg_length_m exactly.
C6_ReportedTotalIsLegsTimesLength ==
    (ValidInput /\ Returned) =>
        Summary.total_path_length_m
            = QMul(QInt(Summary.num_legs), Summary.leg_length_m)

\* the leg length of the chosen orientation, as given
GivenLegLength ==
    IF Summary.sweep_direction = "along_length"
    THEN LengthOf(mission_spec) ELSE WidthOf(mission_spec)

\* C6 amended: the reported total_path_length_m is num_legs times the leg
\* length as given, rounded to 3 decimals; it equals num_legs times the
\* reported leg_length_m whenever the leg length is a whole number of
\* millimetres.
C6_TotalIsRoundedProduct ==
    (ValidInput /\ Returned) =>
        /\ Summary.total_path_length_m
              = Round(QMul(QInt(Summary.num_legs), GivenLegLength), 1000)
        /\ Summary.leg_length_m = Round(GivenLegLength, 1000)
        /\ (Summary.leg_length_m = GivenLegLength
              => Summary.total_path_length_m
                    = QMul(QInt(Summary.num_legs), Summary.leg_length_m))

\* several legs of a length that is not a whole number of millimetres
C6_Witness ==
    /\ ValidInput /\ Returned
    /\ Summary.num_legs > 1
    /\ Summary.leg_length_m # GivenLegLength
    /\ Summary.total_path_length_m
          # QMul(QInt(Summary.num_legs), Summary.leg_length_m)

\* C7 as stated: num_battery_segments is max(1, ceil(t / max_flight_time_min))
\* for t the total_flight_time_min reported in the same summary.
C7_SegmentsFromReportedTime ==
    Returned =>
        Summary.num_battery_segments
            = Max(1, Ceil(QDiv(Summary.total_flight_time_min,
                               max_flight_time_min)))

\* the flight time before rounding, from the path length before rounding
UnroundedFlightTime ==
    QDiv(QDiv(QMul(QInt(Summary.num_legs), GivenLegLength), cruise_speed_mps),
         QInt(60))

\* C7 amended: num_battery_segments is max(1, ceil(t / max_flight_time_min))
\* for t = (num_legs * leg length / cruise_speed_mps) / 60 before rounding,
\* and the reported total_flight_time_min is t rounded to 2 decimals.
C7_SegmentsFromUnroundedTime ==
    Returned =>
        /\ Summary.num_battery_segments
              = Max(1, Ceil(QDiv(UnroundedFlightTime, max_flight_time_min)))
        /\ Summary.total_flight_time_min = Round(UnroundedFlightTime, 100)

\* a flight time just over a whole number of segments that rounds down to it
C7_Witness ==
    /\ Returned
    /\ Summary.num_battery_segments > 1
    /\ Summary.num_battery_segments
          # Max(1, Ceil(QDiv(Summary.total_flight_time_min,
                             max_flight_time_min)))

Projected == pc = "projected" /\ waypoints.status = "returned"

\* C8: for every plan compute_coverage produced, generate_ros_waypoints
\* returns exactly 2 * num_legs waypoints, the k-th with id k, leg_id
\* ceil(k / 2), position start for odd k and end for even k.
C8_TwoWaypointsPerLeg ==
    Projected =>
        /\ Len(waypoints.waypoints) = 2 * Summary.num_legs
        /\ \A k \in 1..Len(waypoints.waypoints) :
              LET w == waypoints.waypoints[k]
              IN  /\ w.id = k
                  /\ w.leg_id = (k + 1) \div 2
                  /\ w.position = IF k % 2 = 1 THEN "start" ELSE "end"

\* the same for the plans whose num_legs is not negative
C8_TwoWaypointsPerGeneratedLeg ==
    (Projected /\ Summary.num_legs >= 0) => C8_TwoWaypointsPerLeg

\* across-track offset of the leg with 1-based index j, before rounding
LegOffset(j) == QMul(QInt(j - 1), cc_locals.leg_spacing_m)

\* C9: for valid input every across-track position in [0, field_span] is
\* within swath_width_m / 2 of some leg's offset: the first and last leg reach
\* the two edges and consecutive legs are at most one swath apart.
C9_WholeRectangleCovered ==
    (ValidInput /\ Returned) =>
        LET n    == cc_locals.num_legs
            half == QDiv(cc_locals.swath_width_m, QInt(2))
        IN  /\ QLe(LegOffset(1), half)
            /\ QLe(QSub(cc_locals.field_span_m, LegOffset(n)), half)
            /\ \A j \in 1..(n - 1) :
                  QLe(QSub(LegOffset(j + 1), LegOffset(j)),
                      cc_locals.swath_width_m)

\* C10: for valid input with num_legs > 1 the distance between consecutive
\* legs after normalization, field_span / (num_legs - 1), is at most
\* swath_width_m * (1 - sidelap_percent / 100).
C10_SidelapMet ==
    (ValidInput /\ Returned /\ cc_locals.num_legs > 1) =>
        QLe(cc_locals.leg_spacing_m,
            QMul(cc_locals.swath_width_m,
                 QSub(QInt(1), QDiv(SidelapOf(mission_spec), QInt(100)))))

\* along-track and across-track coordinates of a reported leg
AlongStart(leg) ==
    IF Summary.sweep_direction = "along_length"
    THEN leg.x_start_m ELSE leg.y_start_m

AlongEnd(leg) ==
    IF Summary.sweep_direction = "along_length"
    THEN leg.x_end_m ELSE leg.y_end_m

AcrossStart(leg) ==
    IF Summary.sweep_direction = "along_length"
    THEN leg.y_start_m ELSE leg.x_start_m

AcrossEnd(leg) ==
    IF Summary.sweep_direction = "along_length"
    THEN leg.y_end_m ELSE leg.x_end_m

\* C11: in the returned legs leg_id runs 1, 2, ..., num_legs in list order;
\* legs with even zero-based index run along-track from 0 to leg_length_m,
\* legs with odd index from leg_length_m to 0; the two endpoints of a leg
\* have the same across-track offset.
C11_LegsAlternate ==
    Returned =>
        LET legs == coverage_plan.legs
        IN  /\ Len(legs) = Max(0, Summary.num_legs)
            /\ \A j \in 1..Len(legs) :
                  /\ legs[j].leg_id = j
                  /\ AcrossStart(legs[j]) = AcrossEnd(legs[j])
                  /\ IF (j - 1) % 2 = 0
                     THEN /\ AlongStart(legs[j]) = QInt(0)
                          /\ AlongEnd(legs[j]) = Summary.leg_length_m
                     ELSE /\ AlongStart(legs[j]) = Summary.leg_length_m
                          /\ AlongEnd(legs[j]) = QInt(0)

C11_Witness ==
    /\ Returned
    /\ Summary.sweep_direction = "along_width"
    /\ Len(coverage_plan.legs) >= 3
    /\ coverage_plan.legs[2].y_start_m = Summary.leg_length_m
    /\ QPos(Summary.leg_length_m)
    /\ coverage_plan.legs[2].y_end_m = QInt(0)

\* the rectangle's extent across the chosen sweep direction
AcrossSpan ==
    IF Summary.sweep_direction = "along_length"
    THEN WidthOf(mission_spec) ELSE LengthOf(mission_spec)

\* C12: for every valid input the legs' across-track offsets start at 0 on
\* leg 1, strictly increase from leg to leg, and the last leg's offset equals
\* the full across-track span (width_m for along_length, length_m for
\* along_width).
C12_OffsetsReachSpan ==
    (ValidInput /\ Returned) =>
        LET legs == coverage_plan.legs
            n    == Len(legs)
        IN  /\ n >= 1
            /\ AcrossStart(legs[1]) = QInt(0)
            /\ \A j \in 1..(n - 1) :
                  QLt(AcrossStart(legs[j]), AcrossStart(legs[j + 1]))
            /\ AcrossStart(legs[n]) = AcrossSpan

\* C12 as the code has it: with more than one leg the offsets before rounding
\* start at 0, strictly increase and end at the across-track span; a single
\* leg lies at offset 0; every reported offset is the 3-decimal rounding.
C12_OffsetsReachSpanWhenSeveralLegs ==
    (ValidInput /\ Returned) =>
        LET legs == coverage_plan.legs
            n    == Len(legs)
        IN  /\ n >= 1
            /\ n = cc_locals.num_legs
            /\ LegOffset(1) = QInt(0)
            /\ \A j \in 1..n :
                  /\ AcrossStart(legs[j]) = Round(LegOffset(j), 1000)
                  /\ AcrossEnd(legs[j]) = Round(LegOffset(j), 1000)
            /\ \A j \in 1..(n - 1) : QLt(LegOffset(j), LegOffset(j + 1))
            /\ (n > 1) => LegOffset(n) = AcrossSpan
            /\ (n = 1) => AcrossStart(legs[1]) = QInt(0)

C12_Witness ==
    /\ ValidInput
    /\ Returned
    /\ Len(coverage_plan.legs) > 2
    /\ LegOffset(Len(coverage_plan.legs)) = AcrossSpan
    /\ AcrossStart(coverage_plan.legs[Len(coverage_plan.legs)]) = AcrossSpan

\* the fields compute_coverage reads for its geometry are the same in a and b
SameGeometryInputs(a, b) ==
    /\ \A k \in {"area", "altitude_m", "camera_fov_deg"} :
          /\ (k \in DOMAIN a) = (k \in DOMAIN b)
          /\ (k \in DOMAIN a) => a[k] = b[k]
    /\ LET oa == Get(a, "overlap", EmptyDict)
           ob == Get(b, "overlap", EmptyDict)
       IN  /\ ("sidelap_percent" \in DOMAIN oa) = ("sidelap_percent" \in DOMAIN ob)
           /\ ("sidelap_percent" \in DOMAIN oa) =>
                 oa["sidelap_percent"] = ob["sidelap_percent"]

\* C13: two calls of compute_coverage with the same cruise speed and segment
\* time, on mission_specs with the same length_m, width_m, altitude_m,
\* camera_fov_deg and sidelap_percent that differ only in frontlap_percent
\* and in unrecognized fields (constraints, regulatory, notes), return the
\* same coverage_summary and legs, and the second fails only if the first does.
C13_IgnoredFieldsDoNotMatter ==
    (/\ Called
     /\ other_plan.status # "not_called"
     /\ SameGeometryInputs(mission_spec, other_spec)) =>
        /\ other_plan.status = coverage_plan.status
        /\ other_plan = coverage_plan

C13_Witness ==
    /\ Returned
    /\ other_plan.status = "returned"
    /\ SameGeometryInputs(mission_spec, other_spec)
    /\ "notes" \in DOMAIN other_spec
    /\ "notes" \notin DOMAIN mission_spec
    /\ FrontlapOf(other_spec) # FrontlapOf(mission_spec)
    /\ Len(other_plan.legs) >= 2

\* the mission length_m 500, width_m 300, altitude_m 70, camera_fov_deg 78,
\* sidelap_percent 65, planned
ExampleMission ==
    /\ Returned
    /\ LengthOf(mission_spec) = QInt(500)
    /\ WidthOf(mission_spec) = QInt(300)
    /\ AltitudeOf(mission_spec) = QInt(70)
    /\ FovOf(mission_spec) = 78
    /\ SidelapOf(mission_spec) = QInt(65)

\* C15: for length_m 500, width_m 300, altitude_m 70, camera_fov_deg 78 and
\* sidelap_percent 65 the reported swath_width_m is 109.2 within rounding
\* (0.05 m) and the orientation chosen, the one with the smaller candidate
\* path length, is along_length.
C15_ExampleSweepsAlongLength ==
    ExampleMission =>
        /\ QLe(QAbs(QSub(Summary.swath_width_m, Q(1092, 10))), Q(5, 100))
        /\ Summary.sweep_direction = "along_length"
        /\ QLe(CandidatePath(QInt(300), QInt(500)),
               CandidatePath(QInt(500), QInt(300)))

\* C15 as the code has it: the reported swath_width_m is 113.37 and the
\* orientation with the smaller candidate path length is along_width, 13 legs
\* of 300 m (3900 m) against 8 legs of 500 m (4000 m).
C15_ExampleSweepsAlongWidth ==
    ExampleMission =>
        /\ Summary.swath_width_m = Q(11337, 100)
        /\ CandidatePath(QInt(300), QInt(500)) = QInt(4000)
        /\ CandidatePath(QInt(500), QInt(300)) = QInt(3900)
        /\ Summary.sweep_direction = "along_width"
        /\ Summary.num_legs = 13
        /\ Summary.total_path_length_m = QInt(3900)

C15_Witness ==
    /\ ExampleMission
    /\ Len(coverage_plan.legs) = 13
    /\ coverage_plan.legs[13].x_start_m = QInt(500)

\* the flat-earth projection of the planar point (x, y) about the origin
ProjectedLatitude(y) == QAdd(origin_lat, QDiv(y, QInt(111320)))

ProjectedLongitude(x) ==
    QAdd(origin_lon,
         QDiv(x, QMul(QInt(111320), QAbs(QDiv(origin_lat, QInt(90))))))

\* C16: every waypoint generate_ros_waypoints returns has latitude
\* origin_lat + y / 111320 and longitude
\* origin_lon + x / (111320 * |origin_lat / 90|) for the endpoint (x, y) of
\* its leg, and the mission altitude; the first waypoint, the projection of
\* leg 1's start point (0, 0), has latitude origin_lat and longitude
\* origin_lon.
C16_FlatEarthProjection ==
    Projected =>
        LET legs == coverage_plan.legs
            wps  == waypoints.waypoints
        IN  /\ Len(wps) = 2 * Len(legs)
            /\ \A j \in 1..Len(legs) :
                  LET s == wps[2 * j - 1]
                      e == wps[2 * j]
                  IN  /\ s.latitude = ProjectedLatitude(legs[j].y_start_m)
                      /\ s.longitude = ProjectedLongitude(legs[j].x_start_m)
                      /\ e.latitude = ProjectedLatitude(legs[j].y_end_m)
                      /\ e.longitude = ProjectedLongitude(legs[j].x_end_m)
                      /\ s.altitude = AltitudeOf(mission_spec)
                      /\ e.altitude = AltitudeOf(mission_spec)
            /\ (Len(legs) >= 1) =>
                  /\ legs[1].x_start_m = QInt(0)
                  /\ legs[1].y_start_m = QInt(0)
                  /\ wps[1].latitude = origin_lat
                  /\ wps[1].longitude = origin_lon

C16_Witness ==
    /\ Projected
    /\ QLt(origin_lat, QInt(0))
    /\ Len(waypoints.waypoints) >= 4
    /\ waypoints.waypoints[1].latitude = origin_lat
    /\ waypoints.waypoints[1].longitude = origin_lon
    /\ QLt(origin_lon, waypoints.waypoints[2].longitude)
    /\ QLt(origin_lat, waypoints.waypoints[3].latitude)
    /\ "altitude_m" \in DOMAIN mission_spec
    /\ waypoints.waypoints[3].altitude = QInt(70)

\* the planar point a waypoint w was projected from, about the origin
\* (lat, lon)
PlanarX(w, lat, lon) ==
    QMul(QSub(w.longitude, lon),
         QMul(QInt(111320), QAbs(QDiv(lat, QInt(90)))))

PlanarY(w, lat) == QMul(QSub(w.latitude, lat), QInt(111320))

\* the waypoints wps, projected about (lat, lon), are the endpoints of legs
FromLegEndpoints(wps, legs, lat, lon) ==
    /\ Len(wps) = 2 * Len(legs)
    /\ \A j \in 1..Len(legs) :
          /\ PlanarX(wps[2 * j - 1], lat, lon) = legs[j].x_start_m
          /\ PlanarY(wps[2 * j - 1], lat) = legs[j].y_start_m
          /\ PlanarX(wps[2 * j], lat, lon) = legs[j].x_end_m
          /\ PlanarY(wps[2 * j], lat) = legs[j].y_end_m

\* C17: a call of generate_ros_waypoints, generate_ros_config or
\* run_ros_config_agent leaves coverage_plan and mission_spec as they were
\* before the call, and the planar position of every waypoint it returns is
\* an endpoint of a leg of that plan.
C17_ProjectorLeavesPlanAndSpec ==
    [][(pc = "planned") =>
          /\ mission_spec' = mission_spec
          /\ coverage_plan' = coverage_plan
          /\ (pc' = "projected" /\ waypoints'.status = "returned") =>
                FromLegEndpoints(waypoints'.waypoints, coverage_plan.legs,
                                 origin_lat', origin_lon')
          /\ (pc' = "packaged" /\ ros_package'.status = "returned") =>
                FromLegEndpoints(ros_package'.waypoints, coverage_plan.legs,
                                 origin_lat', origin_lon')
          /\ (pc' = "configured") =>
                ros_package'.config.flight_parameters.num_waypoints
                    = 2 * Len(coverage_plan.legs)
      ]_vars

C17_Witness ==
    /\ pc = "packaged"
    /\ ros_package.status = "returned"
    /\ Returned
    /\ Len(coverage_plan.legs) >= 2
    /\ ros_package.metadata.total_waypoints = 2 * Len(coverage_plan.legs)
    /\ ros_package.config.flight_parameters.num_waypoints
          = 2 * Len(coverage_plan.legs)

\* C18: the leg_spacing_m reported (to 3 decimals) and used to place the
\* legs is field_span / (num_legs - 1) when num_legs > 1 and exactly 0 when
\* num_legs = 1, field_span being the across-track side of the chosen
\* orientation; the sidelap-derived spacing only gives the number of legs.
C18_SpacingIsSpanOverGaps ==
    Returned =>
        LET n    == Summary.num_legs
            legs == coverage_plan.legs
            sidelap_spacing ==
                QMul(cc_locals.swath_width_m,
                     QSub(QInt(1),
                          QDiv(SidelapOf(mission_spec), QInt(100))))
        IN  /\ n = IF QPos(sidelap_spacing)
                   THEN Ceil(QDiv(AcrossSpan, sidelap_spacing)) ELSE 1
            /\ (n > 1) =>
                  LET gap == QDiv(AcrossSpan, QInt(n - 1))
                  IN  /\ Summary.leg_spacing_m = Round(gap, 1000)
                      /\ \A j \in 1..n :
                            AcrossStart(legs[j])
                                = Round(QMul(QInt(j - 1), gap), 1000)
            /\ (n = 1) =>
                  /\ Summary.leg_spacing_m = QInt(0)
                  /\ AcrossStart(legs[1]) = QInt(0)

C18_Witness ==
    /\ Returned
    /\ Summary.num_legs = 8
    /\ AcrossSpan = QInt(200)
    /\ Summary.leg_spacing_m = Q(28571, 1000)
    /\ Summary.leg_spacing_m # Round(cc_locals.sidelap_spacing_m, 1000)
    /\ AcrossStart(coverage_plan.legs[8]) = QInt(200)

\* swath_width_m * (1 - sidelap_percent / 100), from the mission_spec
SidelapDerivedSpacing ==
    QMul(QMul(QMul(QInt(2), AltitudeOf(mission_spec)),
              TanHalf(FovOf(mission_spec))),
         QSub(QInt(1), QDiv(SidelapOf(mission_spec), QInt(100))))

\* C19: when swath_width_m * (1 - sidelap_percent / 100) is <= 0 both
\* orientation candidates have one leg and the plan has num_legs = 1,
\* leg_spacing_m = 0, one leg at across-track offset 0 and leg_length_m =
\* min(length_m, width_m) (to 3 decimals), along_length on a tie.
C19_SingleLegWhenNoSpacing ==
    (Returned /\ QLe(SidelapDerivedSpacing, QInt(0))) =>
        LET length_m == LengthOf(mission_spec)
            width_m  == WidthOf(mission_spec)
            legs     == coverage_plan.legs
        IN  /\ cc_locals.num_legs_along_length = 1
            /\ cc_locals.num_legs_along_width = 1
            /\ Summary.num_legs = 1
            /\ Summary.leg_spacing_m = QInt(0)
            /\ Len(legs) = 1
            /\ AcrossStart(legs[1]) = QInt(0)
            /\ AcrossEnd(legs[1]) = QInt(0)
            /\ cc_locals.leg_length_m = QMin(length_m, width_m)
            /\ Summary.leg_length_m = Round(QMin(length_m, width_m), 1000)
            /\ Summary.sweep_direction
                  = IF QLe(length_m, width_m)
                    THEN "along_length" ELSE "along_width"

C19_Witness ==
    /\ Returned
    /\ SidelapOf(mission_spec) = QInt(100)
    /\ QPos(cc_locals.swath_width_m)
    /\ LengthOf(mission_spec) = QInt(300)
    /\ WidthOf(mission_spec) = QInt(100)
    /\ Summary.sweep_direction = "along_width"
    /\ Summary.leg_length_m = QInt(100)
    /\ Len(coverage_plan.legs) = 1

\* the sidelap-derived spacing of a 90 degree camera in real arithmetic:
\* tan(45 degrees) = 1, so the swath is 2 * altitude
RightAngleSpacing ==
    QMul(QMul(QInt(2), AltitudeOf(mission_spec)),
         QSub(QInt(1), QDiv(SidelapOf(mission_spec), QInt(100))))

\* the leg count C20 gives for an across-track span
LegCountFor(span_m) ==
    LET q == QDiv(span_m, RightAngleSpacing)
    IN  IF q[2] = 1 THEN q[1] ELSE Floor(q) + 1

\* C20: when the across-track span of an orientation is an exact positive
\* multiple k of the sidelap-derived leg spacing that orientation has exactly
\* k legs, and when it is not a multiple it has floor(span / spacing) + 1
\* legs.  Stated for valid input with camera_fov_deg = 90, the angle drawn
\* at which a span in metres can be a multiple of the spacing.
C20_NoExtraLegAtExactMultiple ==
    (ValidInput /\ Returned /\ FovOf(mission_spec) = 90) =>
        /\ cc_locals.num_legs_along_length
              = LegCountFor(WidthOf(mission_spec))
        /\ cc_locals.num_legs_along_width
              = LegCountFor(LengthOf(mission_spec))

\* consecutive legs meet: the transit from leg j to leg j + 1 is across-track
ContinuousPath ==
    \A j \in 1..(Len(coverage_plan.legs) - 1) :
        AlongEnd(coverage_plan.legs[j]) = AlongStart(coverage_plan.legs[j + 1])

\* every endpoint of every leg has 0 <= x <= max_x and 0 <= y <= max_y
EndpointsWithin(max_x, max_y) ==
    \A j \in 1..Len(coverage_plan.legs) :
        LET leg == coverage_plan.legs[j]
        IN  /\ QLe(QInt(0), leg.x_start_m) /\ QLe(leg.x_start_m, max_x)
            /\ QLe(QInt(0), leg.x_end_m)   /\ QLe(leg.x_end_m, max_x)
            /\ QLe(QInt(0), leg.y_start_m) /\ QLe(leg.y_start_m, max_y)
            /\ QLe(QInt(0), leg.y_end_m)   /\ QLe(leg.y_end_m, max_y)

\* C21: the legs form a continuous boustrophedon path inside the rectangle:
\* the end of leg i and the start of leg i + 1 have the same along-track
\* coordinate, and every leg endpoint has 0 <= x <= length_m and
\* 0 <= y <= width_m.  Stated for valid input.
C21_PathInsideRectangle ==
    (ValidInput /\ Returned) =>
        /\ ContinuousPath
        /\ EndpointsWithin(LengthOf(mission_spec), WidthOf(mission_spec))

\* C21 as the code has it: the path is continuous and every endpoint lies
\* within the rectangle whose sides are length_m and width_m rounded to 3
\* decimals.
C21_PathInsideRoundedRectangle ==
    (ValidInput /\ Returned) =>
        /\ ContinuousPath
        /\ EndpointsWithin(Round(LengthOf(mission_spec), 1000),
                           Round(WidthOf(mission_spec), 1000))

\* a plan of several legs with an endpoint rounded past the side
C21_Witness ==
    /\ ValidInput
    /\ Returned
    /\ Len(coverage_plan.legs) >= 3
    /\ ContinuousPath
    /\ ~EndpointsWithin(LengthOf(mission_spec), WidthOf(mission_spec))

\* the tool call of its run that wrote file f
CallOf(f) ==
    IF f.name = "mission_brief.md" THEN runs[f.run].brief ELSE runs[f.run].ros

\* the call took its mission id from CURRENT_MISSION_ID
FellBackToEnv(call) == ~call.arg.parsed \/ call.arg.mission_id = 0

\* C22: when two pipeline runs interleave in one process, the
\* ros_waypoints.json, ros_config.json and mission_brief.md made for a mission
\* are written under missions/<id> of the row that the same run inserted,
\* both where the id is list_missions()[0] (main.py) and where it is the
\* CURRENT_MISSION_ID fallback (pipeline.py).
C22_FilesUnderOwnMission ==
    \A f \in fs.files :
        (/\ runs[f.run].saved_id > 0
         /\ entry = "main" \/ FellBackToEnv(CallOf(f))) =>
            f.dir = runs[f.run].saved_id

\* C23: create_new_mission returns status "success" only if the pipeline run
\* it started inserted a mission row, and then with the id of that row; if
\* the run saved no mission, or failed, it returns status "error", whatever
\* rows the table already has.
C23_SuccessOnlyForOwnRow ==
    \A r \in Runs :
        (runs[r].result.status # "not_called") =>
            /\ (runs[r].result.status = "success") =>
                  /\ runs[r].saved_id > 0
                  /\ runs[r].result.mission_id = runs[r].saved_id
            /\ (runs[r].saved_id = 0 \/ runs[r].pc = "failed") =>
                  runs[r].result.status = "error"

\* the files a tool call of run r wrote
FilesOfCall(r, names) == {f \in fs.files : f.run = r /\ f.name \in names}

\* what C24 says of one call of a tool of pipeline.py
ResolvesAsClaimed(r, call, names) ==
    LET id == IF call.arg.parsed /\ call.arg.mission_id # 0
              THEN call.arg.mission_id ELSE call.env
    IN  /\ call.mission_id = id
        /\ (id > 0) =>
              /\ call.status = "returned"
              /\ FilesOfCall(r, names)
                    = {[dir |-> id, name |-> n, run |-> r] : n \in names}
        /\ (id <= 0) =>
              /\ call.status = "error"
              /\ FilesOfCall(r, names) = {}
              /\ id \notin fs.dirs

\* C24: generate_ros_package and generate_mission_brief of pipeline.py take
\* the mission id from db_save_result when it parses to a non-zero
\* mission_id, otherwise from CURRENT_MISSION_ID; with no positive id they
\* return an error and create no directory or file; with an id they write
\* their files only under missions/<id>/.
C24_MissionIdResolution ==
    (entry = "pipeline") =>
        \A r \in Runs :
            /\ (runs[r].ros.status # "not_called") =>
                  ResolvesAsClaimed(r, runs[r].ros,
                                    {"ros_waypoints.json", "ros_config.json"})
            /\ (runs[r].brief.status # "not_called") =>
                  ResolvesAsClaimed(r, runs[r].brief, {"mission_brief.md"})

====
